---- MODULE Spec2Model ----
(***************************************************************************)
(* A model of ics-extractor: the appointment extractor (main.py), the      *)
(* calendar-file generator (main.py), the remote-calendar uploader         *)
(* (google_calendar.py) and the configuration store (config.py).           *)
(*                                                                         *)
(* A text is a sequence of one-character strings.  Python indexes from 0,  *)
(* the sequences here from 1; a position p below is the index of the next  *)
(* character to read, so Python's position is p - 1.                       *)
(***************************************************************************)
EXTENDS Integers, Sequences, FiniteSets, TLC

VARIABLES
    lines,          \* the input document as composed: a sequence of line records
    text,           \* the text handed to _extract_appointments
    pos,            \* re.finditer: where the next search starts
    matches,        \* the re.Match objects found so far (spans of the groups)
    result,         \* the list of Appointment built so far
    xpc,            \* _extract_appointments: "scan", "returned" or "raised"
    appointments,   \* the list handed to _generate_ics or to the uploader
    config,         \* the Config handed to them
    calendar,       \* _generate_ics: the Calendar being filled
    ipc,            \* _generate_ics: "loop" or "done"
    cfile,          \* the file at the path given to Config.load_or_default
    loads,          \* the calls of Config.load_or_default so far, in order
    token,          \* token.json: "absent", "valid", "expired", "stale", "malformed"
    secrets,        \* whether credentials.json exists
    remote,         \* the events of the remote calendar when the upload starts
    existing_summaries, \* the (summary, dateTime) pairs of the events listed
    ui,             \* the uploader's loop: the index of the next appointment
    uploaded_count, \* the uploader's counter of created events
    skipped_count,  \* the uploader's counter of duplicates
    requests,       \* the insert requests issued so far, in order
    printed,        \* the messages printed so far, in order
    upc,            \* the uploader's position
    created,        \* the events the remote service has stored on insert, in order
    now,            \* datetime.now() of the uploads: the timeMin of events().list
    runs,           \* the calls of the uploader that have ended
    pdfs,           \* the input directory as glob("*.pdf") yields it: stem and lines
    doc,            \* main's loop: the index of the document in work
    output,         \* the output directory: the file of each name written
    mpc             \* main's position

xvars == <<lines, text, pos, matches, result, xpc>>

avars == <<appointments, config>>

ivars == <<calendar, ipc>>

cvars == <<cfile, loads>>

uvars == <<token, secrets, remote, existing_summaries, ui, uploaded_count, skipped_count,
           requests, printed, upc>>

rvars == <<created, now, runs>>

mvars == <<pdfs, doc, output, mpc>>

vars == <<xvars, avars, ivars, cvars, uvars, rvars, mvars>>

(***************************************************************************)
(* Bounds of the model.                                                    *)
(***************************************************************************)
MaxLines == 2

MaxGap == 1

MaxAppointments == 3

MaxLoads == 2

MaxDocs == 2

MaxRuns == 2

(***************************************************************************)
(* Characters and character classes of the pattern.                        *)
(***************************************************************************)
DigitChars == <<"0", "1", "2", "3", "4", "5", "6", "7", "8", "9">>

Letters == {"D", "i", "o", "K", "G", "Z", "N", "S", "O", "a", "t", "j", "M", "k", "e"}

Spaces == {" ", "\n", "\t"}

IsLetter(c) == c \in Letters

IsDigit(c) == \E i \in 1..10 : DigitChars[i] = c

IsSpace(c) == c \in Spaces

DigitVal(c) == (CHOOSE i \in 1..10 : DigitChars[i] = c) - 1

\* int() of a run of decimal digits
RECURSIVE Num(_)
Num(s) == IF s = <<>> THEN 0 ELSE 10 * Num(SubSeq(s, 1, Len(s) - 1)) + DigitVal(s[Len(s)])

\* sep.join(parts)
RECURSIVE Join(_, _)
Join(parts, sep) ==
    IF parts = <<>> THEN <<>>
    ELSE IF Len(parts) = 1 THEN parts[1]
    ELSE parts[1] \o sep \o Join(Tail(parts), sep)

\* Slice(t, a, b) is Python's t[a-1:b-1]: the characters at a .. b-1
Slice(t, a, b) == SubSeq(t, a, b - 1)

(***************************************************************************)
(* _APPOINTMENT_PATTERN, item by item.                                     *)
(*   [A-Za-z]{2} \s* (\d{2}\.\d{2}\.\d{4}) \s* (\d{2}:\d{2}) \s*           *)
(*   ([^(]+?) \s* \( ([^)]+) \)                                            *)
(***************************************************************************)

\* A faulty variant of SkipSpaces, as if the pattern had no \s*: nothing is
\* skipped.  Whitespace insensitivity (C4) must tell it from SkipSpaces.
SkipSpacesNone(t, p) == p

\* \s* taken greedily from p: the position after the longest run of whitespace
RECURSIVE SkipSpaces(_, _)
SkipSpaces(t, p) == IF p <= Len(t) /\ IsSpace(t[p]) THEN SkipSpaces(t, p + 1) ELSE p

\* [A-Za-z]{2} at p
LettersAt(t, p) == p + 1 <= Len(t) /\ IsLetter(t[p]) /\ IsLetter(t[p + 1])

\* A faulty variant of DateAt, as if the dots of the pattern were not
\* escaped: any character separates day, month and year.  Separator
\* strictness (C3) must tell it from DateAt.
DateAtAnySeparator(t, p) ==
    /\ p + 9 <= Len(t)
    /\ \A i \in {0, 1, 3, 4, 6, 7, 8, 9} : IsDigit(t[p + i])

\* \d{2}\.\d{2}\.\d{4} at p
DateAt(t, p) ==
    /\ p + 9 <= Len(t)
    /\ \A i \in {0, 1, 3, 4, 6, 7, 8, 9} : IsDigit(t[p + i])
    /\ t[p + 2] = "."
    /\ t[p + 5] = "."

\* \d{2}:\d{2} at p
TimeAt(t, p) ==
    /\ p + 4 <= Len(t)
    /\ \A i \in {0, 1, 3, 4} : IsDigit(t[p + i])
    /\ t[p + 2] = ":"

\* a run of characters other than c taken greedily from p: the position after it
RECURSIVE RunEnd(_, _, _)
RunEnd(t, p, c) == IF p <= Len(t) /\ t[p] # c THEN RunEnd(t, p + 1, c) ELSE p

\* ([^)]+)\) at p: the greedy run of characters other than ")" is backed off
\* one character at a time (never below one character) until ")" follows.
\* The value is the position of the closing ")", 0 when no length works.
NameEnd(t, p) ==
    LET cands == {e \in (p + 1)..RunEnd(t, p, ")") : e <= Len(t) /\ t[e] = ")"}
    IN IF cands = {} THEN 0 ELSE CHOOSE e \in cands : \A f \in cands : f <= e

\* \s*\(([^)]+)\) at b: the position of "(" when the rest of the pattern
\* matches from b, 0 otherwise
TailAt(t, b) ==
    LET k == SkipSpaces(t, b)
    IN IF k <= Len(t) /\ t[k] = "(" /\ NameEnd(t, k + 1) # 0 THEN k ELSE 0

\* ([^(]+?) from a, followed by the rest: the lazy group grows one character
\* at a time until the rest matches; the value is the position after the
\* group, 0 when no length works.
KindEnd(t, a) ==
    LET cands == {b \in (a + 1)..RunEnd(t, a, "(") : TailAt(t, b) # 0}
    IN IF cands = {} THEN 0 ELSE CHOOSE b \in cands : \A c \in cands : b <= c

\* \s* before the lazy group, from q: greedy, backed off one character at a
\* time until the group and the rest match; 0 when nothing works.
KindStart(t, q) ==
    LET cands == {a \in q..SkipSpaces(t, q) : KindEnd(t, a) # 0}
    IN IF cands = {} THEN 0 ELSE CHOOSE a \in cands : \A c \in cands : c <= a

NoMatch == [found |-> FALSE]

\* The match of the pattern that starts at s, as re.Match: the spans of the
\* four groups (first position, position after the last) and of the whole.
MatchAt(t, s) ==
    IF ~LettersAt(t, s) THEN NoMatch
    ELSE LET d == SkipSpaces(t, s + 2)
         IN IF ~DateAt(t, d) THEN NoMatch
            ELSE LET h == SkipSpaces(t, d + 10)
                 IN IF ~TimeAt(t, h) THEN NoMatch
                    ELSE LET a == KindStart(t, h + 5)
                         IN IF a = 0 THEN NoMatch
                            ELSE LET b == KindEnd(t, a)
                                     k == TailAt(t, b)
                                     e == NameEnd(t, k + 1)
                                 IN [found |-> TRUE,
                                     start |-> s,
                                     end |-> e + 1,
                                     g1 |-> <<d, d + 10>>,
                                     g2 |-> <<h, h + 5>>,
                                     g3 |-> <<a, b>>,
                                     g4 |-> <<k + 1, e>>]

\* re.finditer's next step: the leftmost start at or after p where the
\* pattern matches; NoMatch when there is none.
SearchFrom(t, p) ==
    LET starts == {s \in p..Len(t) : MatchAt(t, s).found}
    IN IF starts = {} THEN NoMatch
       ELSE MatchAt(t, CHOOSE s \in starts : \A u \in starts : s <= u)

Group(t, m, g) == Slice(t, g[1], g[2])

(***************************************************************************)
(* str.strip()                                                             *)
(***************************************************************************)
RECURSIVE LStrip(_)
LStrip(s) == IF s # <<>> /\ IsSpace(Head(s)) THEN LStrip(Tail(s)) ELSE s

RECURSIVE RStrip(_)
RStrip(s) ==
    IF s # <<>> /\ IsSpace(s[Len(s)]) THEN RStrip(SubSeq(s, 1, Len(s) - 1)) ELSE s

Strip(s) == RStrip(LStrip(s))

(***************************************************************************)
(* datetime.strptime(f"{date_str} {time_str}", "%d.%m.%Y %H:%M")           *)
(***************************************************************************)
IsLeap(y) == y % 4 = 0 /\ (y % 100 # 0 \/ y % 400 = 0)

DaysInMonth(y, m) ==
    IF m = 2 THEN (IF IsLeap(y) THEN 29 ELSE 28)
    ELSE IF m \in {4, 6, 9, 11} THEN 30 ELSE 31

ValueError == [ok |-> FALSE]

\* date_str is DD.MM.YYYY and time_str HH:MM, digits where the pattern put
\* them.  %d takes 01..31, %m 01..12, %Y four digits, %H 00..23, %M 00..59;
\* datetime then wants a year of 1..9999 and a day the month has.
StrpTime(date_str, time_str) ==
    LET dd == Num(SubSeq(date_str, 1, 2))
        mm == Num(SubSeq(date_str, 4, 5))
        yy == Num(SubSeq(date_str, 7, 10))
        hh == Num(SubSeq(time_str, 1, 2))
        mi == Num(SubSeq(time_str, 4, 5))
    IN IF /\ dd \in 1..31
          /\ mm \in 1..12
          /\ hh \in 0..23
          /\ mi \in 0..59
          /\ yy \in 1..9999
          /\ dd <= DaysInMonth(yy, mm)
       THEN [ok |-> TRUE,
             date |-> [year |-> yy, month |-> mm, day |-> dd, hour |-> hh, minute |-> mi]]
       ELSE ValueError

\* A faulty variant of MatchToAppointment that does not strip the therapist's
\* name.  Trimming (C5) must tell it from MatchToAppointment.
MatchToAppointmentUnstripped(t, m) ==
    LET parsed == StrpTime(Group(t, m, m.g1), Group(t, m, m.g2))
    IN IF parsed.ok
       THEN [ok |-> TRUE,
             appointment |-> [date |-> parsed.date,
                              therapy_kind |-> Strip(Group(t, m, m.g3)),
                              therapist_name |-> Group(t, m, m.g4)]]
       ELSE ValueError

\* _match_to_appointment: the Appointment of a match, or ValueError
MatchToAppointment(t, m) ==
    LET date_str == Group(t, m, m.g1)
        time_str == Group(t, m, m.g2)
        therapy_kind == Strip(Group(t, m, m.g3))
        therapist_name == Strip(Group(t, m, m.g4))
        parsed == StrpTime(date_str, time_str)
    IN IF parsed.ok
       THEN [ok |-> TRUE,
             appointment |-> [date |-> parsed.date,
                              therapy_kind |-> therapy_kind,
                              therapist_name |-> therapist_name]]
       ELSE ValueError

(***************************************************************************)
(* The input documents.  A line is composed of a day token, a date, a      *)
(* time, a treatment code and a practitioner part, with g1..g4 whitespace  *)
(* characters between them; a token may be missing (<<>>) or malformed.    *)
(***************************************************************************)
Digit(n) == DigitChars[n + 1]

Fmt2(n) == <<Digit(n \div 10), Digit(n % 10)>>

Fmt4(n) == <<Digit(n \div 1000), Digit((n \div 100) % 10), Digit((n \div 10) % 10), Digit(n % 10)>>

DateTok(d, m, y, sep) == Fmt2(d) \o <<sep>> \o Fmt2(m) \o <<sep>> \o Fmt4(y)

TimeTok(h, mi) == Fmt2(h) \o <<":">> \o Fmt2(mi)

DayDi == <<"D", "i">>

GoodDate == DateTok(27, 1, 2026, ".")

EarlyDate == DateTok(8, 1, 2026, ".")

BadDate == DateTok(31, 2, 2026, ".")

SlashDate == DateTok(27, 1, 2026, "/")

DashDate == DateTok(27, 1, 2026, "-")

GoodTime == TimeTok(16, 40)

BadTime == TimeTok(25, 0)

CodeKG == <<"K", "G", " ", "Z", "N", "S">>

CodeO60 == <<"O", "6", "0">>

NameKatja == <<"(", "K", "a", "t", "j", "a", ")">>

NameMikePadded == <<"(", " ", "M", "i", "k", "e", " ", ")">>

NameBare == <<"K", "a", "t", "j", "a">>

\* n whitespace characters: blank, newline, tab in turn
Gap(n) == [k \in 1..n |-> IF k % 3 = 1 THEN " " ELSE IF k % 3 = 2 THEN "\n" ELSE "\t"]

Line(day, date, time, code, name, g1, g2, g3, g4) ==
    [day |-> day, date |-> date, time |-> time, code |-> code, name |-> name,
     g1 |-> g1, g2 |-> g2, g3 |-> g3, g4 |-> g4]

\* every combination of the tokens and of the four gaps
AllLines ==
    {Line(day, date, time, code, name, g1, g2, g3, g4) :
        day \in {DayDi, <<>>},
        date \in {GoodDate, BadDate, SlashDate, DashDate},
        time \in {GoodTime, BadTime, <<>>},
        code \in {CodeKG, CodeO60, <<>>},
        name \in {NameKatja, NameMikePadded, NameBare},
        g1 \in 0..MaxGap, g2 \in 0..MaxGap, g3 \in 0..MaxGap, g4 \in 0..MaxGap}

\* the lines that documents of several lines are made of, each glued or
\* evenly spaced
SomeLines ==
    {Line(tk[1], tk[2], tk[3], tk[4], tk[5], g, g, g, g) :
        tk \in {<<DayDi, GoodDate, GoodTime, CodeKG, NameKatja>>,
                <<DayDi, EarlyDate, GoodTime, CodeO60, NameMikePadded>>,
                <<DayDi, BadDate, GoodTime, CodeKG, NameKatja>>,
                <<DayDi, GoodDate, GoodTime, CodeKG, NameBare>>,
                <<<<>>, GoodDate, GoodTime, CodeKG, NameKatja>>},
        g \in 0..MaxGap}

RenderLine(l) ==
    l.day \o Gap(l.g1) \o l.date \o Gap(l.g2) \o l.time \o Gap(l.g3) \o l.code
        \o Gap(l.g4) \o l.name

\* "\n".join(...) (main.py:50)
Render(ls) == Join([i \in 1..Len(ls) |-> RenderLine(ls[i])], <<"\n">>)

SeqsUpTo(S, n) == UNION {[1..k -> S] : k \in 0..n}

Documents == {<<l>> : l \in AllLines} \cup SeqsUpTo(SomeLines, MaxLines)

(***************************************************************************)
(* Config (config.py) and the values used with it.                         *)
(***************************************************************************)
Krankengymnastik == <<"K", "r", "a", "n", "k", "e", "n", "g", "y", "m", "n", "a", "s", "t", "i", "k">>

Osteopathie == <<"O", "s", "t", "e", "o", "p", "a", "t", "h", "i", "e">>

AddressLine1 == <<"T", "h", "e", "r", "a", "p", "i", "e", "z", "e", "n", "t", "r", "u", "m", " ", "a", "m", " ", "S", "t", "a", "d", "t", "p", "a", "r", "k">>

AddressLine2 == <<"S", "t", "a", "d", "t", "p", "a", "r", "k", " ", "1">>

AddressLine3 == <<"1", "2", "3", "4", "5", " ", "M", "u", "s", "t", "e", "r", "s", "t", "a", "d", "t">>

\* Config(): the field defaults
DefaultConfig ==
    [therapy_practice_address |-> <<AddressLine1, AddressLine2, AddressLine3>>,
     therapy_kind_mapping |-> (CodeKG :> Krankengymnastik) @@ (CodeO60 :> Osteopathie),
     appointment_duration_minutes |-> 30]

\* a configuration an operator has persisted: one address line, one mapped
\* code, a duration that carries a late appointment past midnight
Physio == <<"P", "h", "y", "s", "i", "o">>

Praxis == <<"P", "r", "a", "x", "i", "s">>

CustomConfig ==
    [therapy_practice_address |-> <<Praxis, AddressLine2>>,
     therapy_kind_mapping |-> (CodeKG :> Physio),
     appointment_duration_minutes |-> 45]

Configs == {DefaultConfig, CustomConfig}

(***************************************************************************)
(* datetime: + timedelta(minutes = n), strftime, isoformat, str(int).      *)
(***************************************************************************)
\* the date k days after year y, month m, day d
RECURSIVE AddDays(_, _, _, _)
AddDays(y, m, d, k) ==
    IF k = 0 THEN [year |-> y, month |-> m, day |-> d]
    ELSE IF d < DaysInMonth(y, m) THEN AddDays(y, m, d + 1, k - 1)
    ELSE IF m < 12 THEN AddDays(y, m + 1, 1, k - 1)
    ELSE AddDays(y + 1, 1, 1, k - 1)

\* dt + timedelta(minutes = n), n >= 0
AddMinutes(dt, n) ==
    LET total == dt.hour * 60 + dt.minute + n
        on == AddDays(dt.year, dt.month, dt.day, total \div 1440)
    IN [year |-> on.year, month |-> on.month, day |-> on.day,
        hour |-> (total % 1440) \div 60, minute |-> total % 60]

\* str(n), n >= 0
RECURSIVE Str(_)
Str(n) == IF n < 10 THEN <<Digit(n)>> ELSE Str(n \div 10) \o <<Digit(n % 10)>>

\* dt.strftime('%Y%m%d%H%M%S'); the seconds of a parsed date are 0
StrfTime(dt) ==
    Fmt4(dt.year) \o Fmt2(dt.month) \o Fmt2(dt.day) \o Fmt2(dt.hour) \o Fmt2(dt.minute)
        \o Fmt2(0)

\* dt.isoformat() of a naive datetime with no microseconds
IsoFormat(dt) ==
    Fmt4(dt.year) \o <<"-">> \o Fmt2(dt.month) \o <<"-">> \o Fmt2(dt.day) \o <<"T">>
        \o Fmt2(dt.hour) \o <<":">> \o Fmt2(dt.minute) \o <<":">> \o Fmt2(0)

(***************************************************************************)
(* _generate_ics and _create_event (main.py)                               *)
(***************************************************************************)
UidSuffix == <<"@", "i", "c", "s", "-", "e", "x", "t", "r", "a", "c", "t", "o", "r">>

\* A faulty variant of Uid that leaves the sequence number out.  Uniqueness
\* of the identifiers (C7) must tell it from Uid.
UidOfDate(date, event_id) == StrfTime(date) \o UidSuffix

\* f"{appointment.date.strftime('%Y%m%d%H%M%S')}-{event_id}@ics-extractor"
Uid(date, event_id) == StrfTime(date) \o <<"-">> \o Str(event_id) \o UidSuffix

\* A faulty variant of TherapyDisplay that never consults the mapping.  The
\* event's title (C6) must tell it from TherapyDisplay.
TherapyDisplayRaw(cfg, therapy_kind) == therapy_kind

\* config.therapy_kind_mapping.get(therapy_kind, therapy_kind)
TherapyDisplay(cfg, therapy_kind) ==
    IF therapy_kind \in DOMAIN cfg.therapy_kind_mapping
    THEN cfg.therapy_kind_mapping[therapy_kind]
    ELSE therapy_kind

\* "\n".join(config.therapy_practice_address)
Location(cfg) == Join(cfg.therapy_practice_address, <<"\n">>)

\* the Event of an appointment; stamp is datetime.now()
CreateEventOf(appointment, event_id, cfg, stamp) ==
    [uid |-> Uid(appointment.date, event_id),
     dtstamp |-> stamp,
     dtstart |-> appointment.date,
     dtend |-> AddMinutes(appointment.date, cfg.appointment_duration_minutes),
     summary |-> TherapyDisplay(cfg, appointment.therapy_kind),
     description |-> appointment.therapist_name,
     location |-> Location(cfg),
     status |-> "CONFIRMED"]

\* the Calendar as _generate_ics creates it (main.py:99-101)
NewCalendar == [prodid |-> "-//ICS Extractor//EN", version |-> "2.0", events |-> <<>>]

\* no file at the path
Absent == [exists |-> FALSE]

(***************************************************************************)
(* Each specification runs one component; the others rest.                 *)
(***************************************************************************)
ExtractIdle ==
    /\ lines = <<>>
    /\ text = <<>>
    /\ pos = 1
    /\ matches = <<>>
    /\ result = <<>>
    /\ xpc = "idle"

InputsIdle == appointments = <<>> /\ config = DefaultConfig

IcsIdle == calendar = NewCalendar /\ ipc = "idle"

ConfigIdle == cfile = Absent /\ loads = <<>>

UploadIdle ==
    /\ token = "absent"
    /\ secrets = FALSE
    /\ remote = {}
    /\ existing_summaries = {}
    /\ ui = 1
    /\ uploaded_count = 0
    /\ skipped_count = 0
    /\ requests = <<>>
    /\ printed = <<>>
    /\ upc = "idle"
    /\ created = <<>>
    /\ now = [year |-> 2026, month |-> 1, day |-> 1, hour |-> 8, minute |-> 0]
    /\ runs = 0

MainIdle ==
    /\ pdfs = <<>>
    /\ doc = 1
    /\ output = <<>>
    /\ mpc = "idle"

(***************************************************************************)
(* _extract_appointments: the list comprehension over re.finditer, one     *)
(* iteration per step.                                                     *)
(***************************************************************************)
ExtractStart ==
    /\ lines \in Documents
    /\ text = Render(lines)
    /\ pos = 1
    /\ matches = <<>>
    /\ result = <<>>
    /\ xpc = "scan"

InitExtract ==
    ExtractStart /\ InputsIdle /\ IcsIdle /\ ConfigIdle /\ UploadIdle /\ MainIdle

\* the list with appointment a put before the first record of a later date
RECURSIVE InsertByDate(_, _)
InsertByDate(rs, a) ==
    LET key(x) == <<x.date.year, x.date.month, x.date.day, x.date.hour, x.date.minute>>
        later(x, y) == \E k \in 1..5 : key(x)[k] > key(y)[k]
                                       /\ \A j \in 1..(k - 1) : key(x)[j] = key(y)[j]
    IN IF rs = <<>> THEN <<a>>
       ELSE IF later(Head(rs), a) THEN <<a>> \o rs
       ELSE <<Head(rs)>> \o InsertByDate(Tail(rs), a)

\* A faulty variant of ExtractAppend that keeps the list sorted by date.
\* Occurrence order (C2) must tell it from ExtractAppend.
ExtractAppendSorted ==
    /\ xpc = "scan"
    /\ LET m == SearchFrom(text, pos)
       IN /\ m.found
          /\ MatchToAppointment(text, m).ok
          /\ matches' = Append(matches, m)
          /\ result' = InsertByDate(result, MatchToAppointment(text, m).appointment)
          /\ pos' = m.end
    /\ UNCHANGED <<lines, text, xpc, avars, ivars, cvars, uvars, rvars, mvars>>

\* the next match converts: its Appointment is appended
ExtractAppend ==
    /\ xpc = "scan"
    /\ LET m == SearchFrom(text, pos)
       IN /\ m.found
          /\ MatchToAppointment(text, m).ok
          /\ matches' = Append(matches, m)
          /\ result' = Append(result, MatchToAppointment(text, m).appointment)
          /\ pos' = m.end
    /\ UNCHANGED <<lines, text, xpc, avars, ivars, cvars, uvars, rvars, mvars>>

\* the next match does not convert: strptime's ValueError leaves the function
ExtractRaise ==
    /\ xpc = "scan"
    /\ LET m == SearchFrom(text, pos)
       IN /\ m.found
          /\ ~MatchToAppointment(text, m).ok
          /\ matches' = Append(matches, m)
          /\ pos' = m.end
    /\ xpc' = "raised"
    /\ UNCHANGED <<lines, text, result, avars, ivars, cvars, uvars, rvars, mvars>>

\* no further match: the list is returned
ExtractReturn ==
    /\ xpc = "scan"
    /\ ~SearchFrom(text, pos).found
    /\ xpc' = "returned"
    /\ UNCHANGED <<lines, text, pos, matches, result, avars, ivars, cvars, uvars, rvars, mvars>>

NextExtract == ExtractAppend \/ ExtractRaise \/ ExtractReturn

SpecExtract == InitExtract /\ [][NextExtract]_vars

(***************************************************************************)
(* _generate_ics: one iteration of the loop over enumerate(appointments,   *)
(* start=1) per step, then calendar.to_ical().                             *)
(***************************************************************************)
CodeMT == <<"M", "T">>

TherapistKatja == <<"K", "a", "t", "j", "a">>

\* appointments as extraction builds them: an afternoon slot and one that
\* ends after midnight of the year's last day; a code both configurations
\* map, one only the default maps, one neither maps
SampleAppointments ==
    {[date |-> d, therapy_kind |-> k, therapist_name |-> TherapistKatja] :
        d \in {[year |-> 2026, month |-> 1, day |-> 27, hour |-> 16, minute |-> 40],
               [year |-> 2026, month |-> 12, day |-> 31, hour |-> 23, minute |-> 50]},
        k \in {CodeKG, CodeO60, CodeMT}}

\* readings of datetime.now()
Stamps == {"now1", "now2"}

InitIcs ==
    /\ appointments \in SeqsUpTo(SampleAppointments, MaxAppointments)
    /\ config \in Configs
    /\ calendar = NewCalendar
    /\ ipc = "loop"
    /\ ExtractIdle
    /\ ConfigIdle
    /\ UploadIdle
    /\ MainIdle

\* event = _create_event(appointment, idx, config); calendar.add_component(event)
AddEvent ==
    /\ ipc = "loop"
    /\ Len(calendar.events) < Len(appointments)
    /\ \E stamp \in Stamps :
          LET idx == Len(calendar.events) + 1
          IN calendar' = [calendar EXCEPT
                 !.events = Append(@, CreateEventOf(appointments[idx], idx, config, stamp))]
    /\ UNCHANGED <<ipc, xvars, avars, cvars, uvars, rvars, mvars>>

\* return calendar.to_ical()
GenerateReturn ==
    /\ ipc = "loop"
    /\ Len(calendar.events) = Len(appointments)
    /\ ipc' = "done"
    /\ UNCHANGED <<calendar, xvars, avars, cvars, uvars, rvars, mvars>>

NextIcs == AddEvent \/ GenerateReturn

SpecIcs == InitIcs /\ [][NextIcs]_vars

(***************************************************************************)
(* Config.load_or_default (config.py).  A file's contents are a JSON text: *)
(* well formed or not, and when well formed an object, a function from its *)
(* keys to their values.  A number is held as [t |-> "int", v |-> n], a    *)
(* string where a number is expected as [t |-> "str", v |-> characters].   *)
(***************************************************************************)
JInt(n) == [t |-> "int", v |-> n]

JStr(cs) == [t |-> "str", v |-> cs]

ValidationError == [ok |-> FALSE]

\* config.model_dump_json(indent=4): the three fields
ModelDumpJson(cfg) ==
    [wellformed |-> TRUE,
     obj |-> ("therapy_practice_address" :> cfg.therapy_practice_address)
             @@ ("therapy_kind_mapping" :> cfg.therapy_kind_mapping)
             @@ ("appointment_duration_minutes" :> JInt(cfg.appointment_duration_minutes))]

\* int from a JSON value: a number as it is, a string of digits converted
IntField(j) ==
    IF j.t = "int" THEN [ok |-> TRUE, v |-> j.v]
    ELSE IF j.v # <<>> /\ \A i \in 1..Len(j.v) : IsDigit(j.v[i])
    THEN [ok |-> TRUE, v |-> Num(j.v)]
    ELSE ValidationError

\* cls.model_validate_json(contents): a field takes the value of its key,
\* its default when the key is missing; other keys are ignored
ModelValidateJson(contents) ==
    IF ~contents.wellformed THEN ValidationError
    ELSE LET o == contents.obj
             dur == IF "appointment_duration_minutes" \in DOMAIN o
                    THEN IntField(o["appointment_duration_minutes"])
                    ELSE [ok |-> TRUE, v |-> DefaultConfig.appointment_duration_minutes]
         IN IF ~dur.ok THEN ValidationError
            ELSE [ok |-> TRUE,
                  config |->
                    [therapy_practice_address |->
                        IF "therapy_practice_address" \in DOMAIN o
                        THEN o["therapy_practice_address"]
                        ELSE DefaultConfig.therapy_practice_address,
                     therapy_kind_mapping |->
                        IF "therapy_kind_mapping" \in DOMAIN o
                        THEN o["therapy_kind_mapping"]
                        ELSE DefaultConfig.therapy_kind_mapping,
                     appointment_duration_minutes |-> dur.v]]

File(contents) == [exists |-> TRUE, contents |-> contents]

\* the object with the keys of ks left out
Without(o, ks) == [k \in DOMAIN o \ ks |-> o[k]]

\* what the path may hold before the first load: nothing, a text that is no
\* JSON, or an object with any of the three keys present or missing, the
\* duration a number, a string of digits or another string, and with or
\* without keys Config does not declare
PersistedFiles ==
    {Absent, File([wellformed |-> FALSE])}
    \cup {File([wellformed |-> TRUE,
                obj |-> Without(("therapy_practice_address" :> cfg.therapy_practice_address)
                                @@ ("therapy_kind_mapping" :> cfg.therapy_kind_mapping)
                                @@ ("appointment_duration_minutes" :> dur)
                                @@ ("google_calendar_id" :> "primary")
                                @@ ("enable_google_calendar_upload" :> TRUE), missing)]) :
            cfg \in Configs,
            dur \in {JInt(30), JInt(45), JStr(<<"4", "5">>), JStr(<<"a", "b">>)},
            missing \in SUBSET {"therapy_practice_address", "therapy_kind_mapping",
                                "appointment_duration_minutes", "google_calendar_id"}}

InitConfig ==
    /\ cfile \in PersistedFiles
    /\ loads = <<>>
    /\ ExtractIdle
    /\ InputsIdle
    /\ IcsIdle
    /\ UploadIdle
    /\ MainIdle

\* path.exists(), the contents validate: the Config is returned
LoadExisting ==
    /\ Len(loads) < MaxLoads
    /\ cfile.exists
    /\ ModelValidateJson(cfile.contents).ok
    /\ loads' = Append(loads, [before |-> cfile,
                               outcome |-> ModelValidateJson(cfile.contents),
                               after |-> cfile])
    /\ UNCHANGED <<cfile, xvars, avars, ivars, uvars, rvars, mvars>>

\* path.exists(), the contents do not validate: the error leaves the method
LoadInvalid ==
    /\ Len(loads) < MaxLoads
    /\ cfile.exists
    /\ ~ModelValidateJson(cfile.contents).ok
    /\ loads' = Append(loads, [before |-> cfile,
                               outcome |-> ValidationError,
                               after |-> cfile])
    /\ UNCHANGED <<cfile, xvars, avars, ivars, uvars, rvars, mvars>>

\* A faulty variant of LoadDefault that returns the defaults and writes no
\* file.  C10 must tell it from LoadDefault.
LoadDefaultNoWrite ==
    /\ Len(loads) < MaxLoads
    /\ ~cfile.exists
    /\ loads' = Append(loads, [before |-> cfile,
                               outcome |-> [ok |-> TRUE, config |-> DefaultConfig],
                               after |-> cfile])
    /\ UNCHANGED <<cfile, xvars, avars, ivars, uvars, rvars, mvars>>

\* no file: cls() is written to the path and returned
LoadDefault ==
    /\ Len(loads) < MaxLoads
    /\ ~cfile.exists
    /\ cfile' = File(ModelDumpJson(DefaultConfig))
    /\ loads' = Append(loads, [before |-> cfile,
                               outcome |-> [ok |-> TRUE, config |-> DefaultConfig],
                               after |-> cfile'])
    /\ UNCHANGED <<xvars, avars, ivars, uvars, rvars, mvars>>

NextConfig == LoadExisting \/ LoadInvalid \/ LoadDefault

SpecConfig == InitConfig /\ [][NextConfig]_vars

(***************************************************************************)
(* upload_appointments_to_google_calendar and                              *)
(* get_google_calendar_credentials (google_calendar.py).  A step is taken  *)
(* at each call that leaves the process: reading the token, refreshing it, *)
(* the consent flow, build, events().list, events().insert.                *)
(*                                                                         *)
(* upc: "creds" before line 62, "build" before line 68, "id" before line   *)
(* 72, "loop" in the loop of line 91; at the end "returned" (line 132),    *)
(* "skipped" (the return of line 65), "handled" (the except branch of      *)
(* line 134 has run) or "raised" (an exception has left the function).     *)
(* The message of line 135 carries the exception: "error: " and its kind.  *)
(***************************************************************************)
Berlin == <<"E", "u", "r", "o", "p", "e", "/", "B", "e", "r", "l", "i", "n">>

\* event_key (line 103)
EventKey(appointment, cfg) ==
    <<TherapyDisplay(cfg, appointment.therapy_kind), IsoFormat(appointment.date)>>

\* the body of the insert request (lines 110-123)
EventBody(appointment, cfg) ==
    [summary |-> TherapyDisplay(cfg, appointment.therapy_kind),
     location |-> Location(cfg),
     description |-> appointment.therapist_name,
     start |-> [dateTime |-> IsoFormat(appointment.date), timeZone |-> Berlin],
     end |-> [dateTime |->
                  IsoFormat(AddMinutes(appointment.date, cfg.appointment_duration_minutes)),
              timeZone |-> Berlin],
     status |-> "confirmed"]

\* getattr(config, name): Config declares three fields and no other
HasAttr(cfg, name) == name \in DOMAIN cfg

\* an object with Config's fields and the two attributes the callers read
\* (main.py:66, google_calendar.py:72) and Config does not declare
WithCalendar(cfg) ==
    [therapy_practice_address |-> cfg.therapy_practice_address,
     therapy_kind_mapping |-> cfg.therapy_kind_mapping,
     appointment_duration_minutes |-> cfg.appointment_duration_minutes,
     google_calendar_id |-> "primary",
     enable_google_calendar_upload |-> TRUE]

SlotJanuary == [year |-> 2026, month |-> 1, day |-> 27, hour |-> 16, minute |-> 40]

SlotDecember == [year |-> 2026, month |-> 12, day |-> 31, hour |-> 23, minute |-> 50]

UploadAppointments ==
    {[date |-> SlotJanuary, therapy_kind |-> CodeKG, therapist_name |-> TherapistKatja],
     [date |-> SlotDecember, therapy_kind |-> CodeMT, therapist_name |-> TherapistKatja]}

\* events the remote calendar may hold: upcoming says whether events().list
\* with timeMin = now returns the event
RemoteEvents ==
    {[summary |-> Krankengymnastik, dateTime |-> IsoFormat(SlotJanuary), upcoming |-> TRUE],
     [summary |-> CodeMT, dateTime |-> IsoFormat(SlotDecember), upcoming |-> TRUE],
     [summary |-> Physio, dateTime |-> IsoFormat(SlotJanuary), upcoming |-> FALSE]}

\* the service reads a dateTime "YYYY-MM-DDTHH:MM:SS" and keeps an event for
\* events().list(timeMin=now) when it ends after now
EndsAfter(iso, at) ==
    LET e == <<Num(Slice(iso, 1, 5)), Num(Slice(iso, 6, 8)), Num(Slice(iso, 9, 11)),
               Num(Slice(iso, 12, 14)), Num(Slice(iso, 15, 17))>>
        n == <<at.year, at.month, at.day, at.hour, at.minute>>
    IN \E k \in 1..5 : n[k] < e[k] /\ \A j \in 1..(k - 1) : n[j] = e[j]

\* the events that events().list(timeMin=now, ...) returns (lines 74-80):
\* those the calendar held at the start that are still to come, and those
\* inserted since that end after now
Listed(held, stored, at) ==
    {[summary |-> r.summary, dateTime |-> r.dateTime] : r \in {h \in held : h.upcoming}}
    \cup {[summary |-> stored[k].summary, dateTime |-> stored[k].start.dateTime] :
              k \in {j \in 1..Len(stored) : EndsAfter(stored[j].end.dateTime, at)}}

\* readings of the clock: before every slot, and between the two
Clocks ==
    {[year |-> 2026, month |-> 1, day |-> 1, hour |-> 8, minute |-> 0],
     [year |-> 2026, month |-> 6, day |-> 1, hour |-> 8, minute |-> 0]}

UploadStart ==
    /\ created = <<>>
    /\ now \in Clocks
    /\ runs = 0
    /\ MainIdle
    /\ appointments \in SeqsUpTo(UploadAppointments, MaxAppointments)
    /\ token \in {"absent", "valid", "expired", "stale", "malformed"}
    /\ secrets \in BOOLEAN
    /\ remote \in SUBSET RemoteEvents
    /\ existing_summaries = {}
    /\ ui = 1
    /\ uploaded_count = 0
    /\ skipped_count = 0
    /\ requests = <<>>
    /\ printed = <<"attempting">>
    /\ upc = "creds"
    /\ ExtractIdle
    /\ IcsIdle
    /\ ConfigIdle

\* the upload as the program can call it: with a Config
InitUpload == UploadStart /\ config \in Configs

\* the upload called with an object that carries google_calendar_id
InitUploadLoop == UploadStart /\ config \in {WithCalendar(cfg) : cfg \in Configs}

UploadRest == <<xvars, avars, ivars, cvars, mvars, now, runs>>

\* token.json holds valid credentials (lines 26-30, 53)
CredsCached ==
    /\ upc = "creds"
    /\ token = "valid"
    /\ upc' = "build"
    /\ UNCHANGED <<token, secrets, remote, existing_summaries, ui, uploaded_count,
                   skipped_count, requests, printed, created, UploadRest>>

\* Credentials.from_authorized_user_file raises (line 27), outside the try
CredsUnreadable ==
    /\ upc = "creds"
    /\ token = "malformed"
    /\ upc' = "raised"
    /\ UNCHANGED <<token, secrets, remote, existing_summaries, ui, uploaded_count,
                   skipped_count, requests, printed, created, UploadRest>>

\* creds.refresh(Request()) succeeds; the token is saved (lines 31-32, 51)
CredsRefreshed ==
    /\ upc = "creds"
    /\ token = "expired"
    /\ token' = "valid"
    /\ upc' = "build"
    /\ UNCHANGED <<secrets, remote, existing_summaries, ui, uploaded_count,
                   skipped_count, requests, printed, created, UploadRest>>

\* creds.refresh(Request()) raises (line 32), outside the try
CredsRefreshFails ==
    /\ upc = "creds"
    /\ token = "expired"
    /\ upc' = "raised"
    /\ UNCHANGED <<token, secrets, remote, existing_summaries, ui, uploaded_count,
                   skipped_count, requests, printed, created, UploadRest>>

\* no usable token and no credentials.json: None is returned and the upload
\* is skipped (lines 34-43, 63-65)
CredsMissingSecrets ==
    /\ upc = "creds"
    /\ token \in {"absent", "stale"}
    /\ ~secrets
    /\ printed' = printed \o <<"credentials.json not found", "skipping">>
    /\ upc' = "skipped"
    /\ UNCHANGED <<token, secrets, remote, existing_summaries, ui, uploaded_count,
                   skipped_count, requests, created, UploadRest>>

\* the consent flow succeeds; the token is saved (lines 45-51)
CredsConsent ==
    /\ upc = "creds"
    /\ token \in {"absent", "stale"}
    /\ secrets
    /\ token' = "valid"
    /\ upc' = "build"
    /\ UNCHANGED <<secrets, remote, existing_summaries, ui, uploaded_count,
                   skipped_count, requests, printed, created, UploadRest>>

\* the consent flow raises (lines 45-48), outside the try
CredsConsentFails ==
    /\ upc = "creds"
    /\ token \in {"absent", "stale"}
    /\ secrets
    /\ upc' = "raised"
    /\ UNCHANGED <<token, secrets, remote, existing_summaries, ui, uploaded_count,
                   skipped_count, requests, printed, created, UploadRest>>

\* build("calendar", "v3", credentials=creds) (line 68)
Build ==
    /\ upc = "build"
    /\ upc' = "id"
    /\ UNCHANGED <<token, secrets, remote, existing_summaries, ui, uploaded_count,
                   skipped_count, requests, printed, created, UploadRest>>

\* build raises: the except branch prints the error (lines 134-135)
BuildFails ==
    /\ upc = "build"
    /\ printed' = Append(printed, "error: build")
    /\ upc' = "handled"
    /\ UNCHANGED <<token, secrets, remote, existing_summaries, ui, uploaded_count,
                   skipped_count, requests, created, UploadRest>>

\* config.google_calendar_id (line 72) on an object without the attribute:
\* AttributeError, which the except branch prints
CalendarIdMissing ==
    /\ upc = "id"
    /\ ~HasAttr(config, "google_calendar_id")
    /\ printed' = Append(printed, "error: AttributeError")
    /\ upc' = "handled"
    /\ UNCHANGED <<token, secrets, remote, existing_summaries, ui, uploaded_count,
                   skipped_count, requests, created, UploadRest>>

\* events().list(timeMin=now, ...).execute() and the set of lines 83-86
ListExisting ==
    /\ upc = "id"
    /\ HasAttr(config, "google_calendar_id")
    /\ existing_summaries' = {<<e.summary, e.dateTime>> : e \in Listed(remote, created, now)}
    /\ printed' = Append(printed, "checking")
    /\ upc' = "loop"
    /\ UNCHANGED <<token, secrets, remote, ui, uploaded_count, skipped_count, requests,
                   created, UploadRest>>

\* events().list raises: the except branch prints the error
ListFails ==
    /\ upc = "id"
    /\ HasAttr(config, "google_calendar_id")
    /\ printed' = printed \o <<"checking", "error: list">>
    /\ upc' = "handled"
    /\ UNCHANGED <<token, secrets, remote, existing_summaries, ui, uploaded_count,
                   skipped_count, requests, created, UploadRest>>

\* event_key in existing_summaries: counted as skipped (lines 106-108)
SkipDuplicate ==
    /\ upc = "loop"
    /\ ui <= Len(appointments)
    /\ EventKey(appointments[ui], config) \in existing_summaries
    /\ skipped_count' = skipped_count + 1
    /\ ui' = ui + 1
    /\ UNCHANGED <<token, secrets, remote, existing_summaries, uploaded_count, requests,
                   printed, upc, created, UploadRest>>

\* events().insert(body=event).execute() succeeds (lines 110-128)
InsertEvent ==
    /\ upc = "loop"
    /\ ui <= Len(appointments)
    /\ EventKey(appointments[ui], config) \notin existing_summaries
    /\ requests' = Append(requests, [index |-> ui,
                                     body |-> EventBody(appointments[ui], config),
                                     ok |-> TRUE])
    /\ created' = Append(created, EventBody(appointments[ui], config))
    /\ uploaded_count' = uploaded_count + 1
    /\ ui' = ui + 1
    /\ UNCHANGED <<token, secrets, remote, existing_summaries, skipped_count, printed, upc,
                   UploadRest>>

\* events().insert raises: the except branch prints the error
InsertFails ==
    /\ upc = "loop"
    /\ ui <= Len(appointments)
    /\ EventKey(appointments[ui], config) \notin existing_summaries
    /\ requests' = Append(requests, [index |-> ui,
                                     body |-> EventBody(appointments[ui], config),
                                     ok |-> FALSE])
    /\ printed' = Append(printed, "error: insert")
    /\ upc' = "handled"
    /\ UNCHANGED <<token, secrets, remote, existing_summaries, ui, uploaded_count,
                   skipped_count, created, UploadRest>>

\* the loop is over: the counts are printed (lines 130-132)
UploadFinish ==
    /\ upc = "loop"
    /\ ui > Len(appointments)
    /\ printed' = printed \o (IF skipped_count > 0 THEN <<"uploaded", "skipped">>
                              ELSE <<"uploaded">>)
    /\ upc' = "returned"
    /\ UNCHANGED <<token, secrets, remote, existing_summaries, ui, uploaded_count,
                   skipped_count, requests, created, UploadRest>>

Credentials ==
    \/ CredsCached
    \/ CredsUnreadable
    \/ CredsRefreshed
    \/ CredsRefreshFails
    \/ CredsMissingSecrets
    \/ CredsConsent
    \/ CredsConsentFails

\* with a Config, line 72 is as far as the try block gets
NextUpload == Credentials \/ Build \/ BuildFails \/ CalendarIdMissing

SpecUpload == InitUpload /\ [][NextUpload]_vars

\* with an object that carries google_calendar_id, the try block runs on
NextUploadLoop ==
    \/ Credentials
    \/ Build
    \/ BuildFails
    \/ ListExisting
    \/ ListFails
    \/ SkipDuplicate
    \/ InsertEvent
    \/ InsertFails
    \/ UploadFinish

SpecUploadLoop == InitUploadLoop /\ [][NextUploadLoop]_vars

\* the uploader is called again with the same list and the same object, as
\* main.py:67 does for the next run; the clock has not gone back
UploadAgain ==
    /\ upc = "returned"
    /\ runs + 1 < MaxRuns
    /\ runs' = runs + 1
    /\ now' \in {c \in Clocks : ~EndsAfter(IsoFormat(now), c)}
    /\ existing_summaries' = {}
    /\ ui' = 1
    /\ uploaded_count' = 0
    /\ skipped_count' = 0
    /\ requests' = <<>>
    /\ printed' = <<"attempting">>
    /\ upc' = "creds"
    /\ UNCHANGED <<token, secrets, remote, created, xvars, avars, ivars, cvars, mvars>>

\* calls that meet no failure: credentials are at hand or obtained
InitUploadRuns ==
    /\ InitUploadLoop
    /\ token # "malformed"
    /\ token \in {"absent", "stale"} => secrets

\* one call after another, none of them failing
NextUploadRuns ==
    \/ CredsCached
    \/ CredsRefreshed
    \/ CredsConsent
    \/ Build
    \/ ListExisting
    \/ SkipDuplicate
    \/ InsertEvent
    \/ UploadFinish
    \/ UploadAgain

SpecUploadRuns == InitUploadRuns /\ [][NextUploadRuns]_vars

(***************************************************************************)
(* main and _process_pdf (main.py).  A step is taken at the load of the    *)
(* configuration, at the extraction from a document, at the writing of its *)
(* calendar file and at the reading of the upload flag.                    *)
(*                                                                         *)
(* mpc: "load" before line 43, "loop" at the head of the loop of line 44,  *)
(* "generate" before line 60, "flag" before line 66; at the end "done"     *)
(* (the loop is over) or "raised" (an exception has left main).            *)
(***************************************************************************)
\* the list comprehension of line 80: an element that raises ends it
Prepend(a, rest) ==
    IF a.ok /\ rest.ok THEN [ok |-> TRUE, list |-> <<a.appointment>> \o rest.list]
    ELSE [ok |-> FALSE]

\* _extract_appointments(t) from position p on: the list, or the ValueError
RECURSIVE ExtractFrom(_, _)
ExtractFrom(t, p) ==
    IF ~SearchFrom(t, p).found THEN [ok |-> TRUE, list |-> <<>>]
    ELSE Prepend(MatchToAppointment(t, SearchFrom(t, p)),
                 ExtractFrom(t, SearchFrom(t, p).end))

ExtractAppointments(t) == ExtractFrom(t, 1)

\* _generate_ics(appointments, config), every event stamped with stamp
GenerateIcs(apps, cfg, stamp) ==
    [NewCalendar EXCEPT
        !.events = [idx \in 1..Len(apps) |-> CreateEventOf(apps[idx], idx, cfg, stamp)]]

\* _OUTPUT_PATH / f"{input_file.stem}.ics"
OutputFile(stem) == [stem |-> stem, suffix |-> ".ics"]

Stems == {"praxis", "reha"}

\* what a document may hold, page by page: nothing, one appointment, two,
\* or an appointment on a day the calendar does not have
PdfPages ==
    {<<>>,
     <<Line(DayDi, GoodDate, GoodTime, CodeKG, NameKatja, 1, 1, 1, 1)>>,
     <<Line(DayDi, GoodDate, GoodTime, CodeKG, NameKatja, 1, 1, 1, 1),
       Line(DayDi, EarlyDate, GoodTime, CodeO60, NameMikePadded, 0, 0, 0, 0)>>,
     <<Line(DayDi, BadDate, GoodTime, CodeKG, NameKatja, 1, 1, 1, 1)>>}

\* _extract_appointments of the text of each document (lines 50-52)
Extracted == [pages \in PdfPages |-> ExtractAppointments(Render(pages))]

\* the input directory as glob yields it: documents of distinct names in
\* any order
Folders ==
    {f \in SeqsUpTo([stem : Stems, lines : PdfPages], MaxDocs) :
        \A i, j \in 1..Len(f) : i # j => f[i].stem # f[j].stem}

\* config.json before the run: absent, no JSON, or a persisted object with
\* the three fields, with or without the keys of the remote calendar
ConfigFiles ==
    {f \in PersistedFiles :
        f.exists /\ f.contents.wellformed =>
            /\ {"therapy_practice_address", "therapy_kind_mapping",
                "appointment_duration_minutes"} \subseteq DOMAIN f.contents.obj
            /\ f.contents.obj["appointment_duration_minutes"].t = "int"}

InitMain ==
    /\ pdfs \in Folders
    /\ cfile \in ConfigFiles
    /\ doc = 1
    /\ output = {}
    /\ mpc = "load"
    /\ loads = <<>>
    /\ ExtractIdle
    /\ InputsIdle
    /\ IcsIdle
    /\ UploadIdle

MainRest == <<xvars, ivars, uvars, rvars, loads, pdfs>>

\* Config.load_or_default(_CONFIG_PATH) returns the persisted Config (line 43)
MainLoadExisting ==
    /\ mpc = "load"
    /\ cfile.exists
    /\ ModelValidateJson(cfile.contents).ok
    /\ config' = ModelValidateJson(cfile.contents).config
    /\ mpc' = "loop"
    /\ UNCHANGED <<cfile, appointments, doc, output, MainRest>>

\* the persisted text does not validate: the error leaves main
MainLoadInvalid ==
    /\ mpc = "load"
    /\ cfile.exists
    /\ ~ModelValidateJson(cfile.contents).ok
    /\ mpc' = "raised"
    /\ UNCHANGED <<cfile, config, appointments, doc, output, MainRest>>

\* no file: the defaults are written and returned
MainLoadDefault ==
    /\ mpc = "load"
    /\ ~cfile.exists
    /\ cfile' = File(ModelDumpJson(DefaultConfig))
    /\ config' = DefaultConfig
    /\ mpc' = "loop"
    /\ UNCHANGED <<appointments, doc, output, MainRest>>

\* the text of the next document is read and extracted (lines 49-52)
ProcessExtract ==
    /\ mpc = "loop"
    /\ doc <= Len(pdfs)
    /\ Extracted[pdfs[doc].lines].ok
    /\ appointments' = Extracted[pdfs[doc].lines].list
    /\ mpc' = "generate"
    /\ UNCHANGED <<cfile, config, doc, output, MainRest>>

\* extraction raises ValueError, which nothing in main catches
ProcessExtractRaises ==
    /\ mpc = "loop"
    /\ doc <= Len(pdfs)
    /\ ~Extracted[pdfs[doc].lines].ok
    /\ mpc' = "raised"
    /\ UNCHANGED <<cfile, config, appointments, doc, output, MainRest>>

\* output_file.write_bytes(ics_content) (lines 60-63)
ProcessWrite ==
    /\ mpc = "generate"
    /\ \E stamp \in Stamps :
          output' = {f \in output : f.name # OutputFile(pdfs[doc].stem)}
                    \cup {[name |-> OutputFile(pdfs[doc].stem),
                           content |-> GenerateIcs(appointments, config, stamp)]}
    /\ mpc' = "flag"
    /\ UNCHANGED <<cfile, config, appointments, doc, MainRest>>

\* config.enable_google_calendar_upload (line 66) on a Config, which has no
\* such attribute: AttributeError, which nothing in main catches
ProcessFlagMissing ==
    /\ mpc = "flag"
    /\ ~HasAttr(config, "enable_google_calendar_upload")
    /\ mpc' = "raised"
    /\ UNCHANGED <<cfile, config, appointments, doc, output, MainRest>>

\* glob yields no further document: main returns
MainDone ==
    /\ mpc = "loop"
    /\ doc > Len(pdfs)
    /\ mpc' = "done"
    /\ UNCHANGED <<cfile, config, appointments, doc, output, MainRest>>

\* load_or_default returns a Config, so line 66 is as far as a document gets
NextMain ==
    \/ MainLoadExisting
    \/ MainLoadInvalid
    \/ MainLoadDefault
    \/ ProcessExtract
    \/ ProcessExtractRaises
    \/ ProcessWrite
    \/ ProcessFlagMissing
    \/ MainDone

\* main is one sequential process: a step that can be taken is taken, and
\* every step moves mpc
SpecMain == InitMain /\ [][NextMain]_vars /\ WF_mpc(NextMain)

(***************************************************************************)
(* Properties of the extractor.                                            *)
(***************************************************************************)
Finished == xpc \in {"returned", "raised"}

Min(S) == CHOOSE x \in S : \A y \in S : x <= y

\* the non-overlapping matches of a left-to-right scan of t from p
RECURSIVE ScanAll(_, _)
ScanAll(t, p) ==
    LET starts == {s \in p..Len(t) : MatchAt(t, s).found}
    IN IF starts = {} THEN <<>>
       ELSE LET m == MatchAt(t, Min(starts)) IN <<m>> \o ScanAll(t, m.end)

\* what extraction of t comes to: the records of its matches in scan order,
\* or an error when one of them does not convert
OutcomeOf(t) ==
    LET ms == ScanAll(t, 1)
    IN IF \E i \in 1..Len(ms) : ~MatchToAppointment(t, ms[i]).ok
       THEN [pc |-> "raised", result |-> <<>>]
       ELSE [pc |-> "returned",
             result |-> [i \in 1..Len(ms) |-> MatchToAppointment(t, ms[i]).appointment]]

Outcome == [pc |-> xpc, result |-> IF xpc = "returned" THEN result ELSE <<>>]

\* C1: _extract_appointments never raises, whatever the text, also when a
\* matching substring's digits are no real date or time of day.
C1_NeverRaises == xpc # "raised"

\* C2: the returned list has exactly one record per non-overlapping match of
\* a left-to-right scan, the i-th record from the i-th match in text order,
\* never reordered by date.
C2_OnePerMatchInOrder ==
    xpc = "returned" =>
        LET ms == ScanAll(text, 1)
        IN /\ Len(result) = Len(ms)
           /\ \A i \in 1..Len(ms) :
                  result[i] = MatchToAppointment(text, ms[i]).appointment
           /\ \A i \in 1..(Len(ms) - 1) : ms[i].end <= ms[i + 1].start

Before(d, e) ==
    <<d.year, d.month, d.day, d.hour, d.minute>> # <<e.year, e.month, e.day, e.hour, e.minute>>
    /\ \E k \in 1..5 :
          LET a == <<d.year, d.month, d.day, d.hour, d.minute>>
              b == <<e.year, e.month, e.day, e.hour, e.minute>>
          IN a[k] < b[k] /\ \A j \in 1..(k - 1) : a[j] = b[j]

\* two records returned, the later date first in the text
C2_Witness ==
    /\ xpc = "returned"
    /\ Len(result) = 2
    /\ Before(result[2].date, result[1].date)

\* a candidate that lacks the day token, the time or the parenthesized name,
\* or whose date is not separated by "."
Defective(l) ==
    \/ l.day = <<>>
    \/ l.time = <<>>
    \/ l.name = NameBare
    \/ l.date \in {SlashDate, DashDate}

\* C3: a candidate text that lacks the two-letter token, the time or the
\* parenthesized name, or separates the date by "/" or "-", is not matched
\* anywhere and yields no record and no error.
C3_DefectiveNotMatched ==
    (Len(lines) = 1 /\ Defective(lines[1])) =>
        /\ \A s \in 1..Len(text) : ~MatchAt(text, s).found
        /\ matches = <<>>
        /\ result = <<>>
        /\ xpc # "raised"

\* extraction of a candidate with a wrong date separator has returned
C3_Witness ==
    /\ Len(lines) = 1
    /\ lines[1].date = SlashDate
    /\ lines[1].day = DayDi /\ lines[1].time = GoodTime /\ lines[1].name = NameKatja
    /\ xpc = "returned"

\* the candidate with the whitespace between its tokens removed
Glued(l) == [l EXCEPT !.g1 = 0, !.g2 = 0, !.g3 = 0, !.g4 = 0]

\* the candidate l, extracted to the current outcome, and its glued form
\* give the same records whenever either gives one
SameAsGlued(l) ==
    LET glued == OutcomeOf(RenderLine(Glued(l)))
    IN (Outcome.result # <<>> \/ glued.result # <<>>) => Outcome = glued

\* C4 as stated: a candidate that yields a record yields the same record
\* with any whitespace, or none, between its tokens.
C4_WhitespaceInsensitive ==
    (Finished /\ Len(lines) = 1) => SameAsGlued(lines[1])

\* C4 amended: the same, for candidates that have a treatment code.
C4_WhitespaceInsensitiveWithCode ==
    (Finished /\ Len(lines) = 1 /\ lines[1].code # <<>>) => SameAsGlued(lines[1])

\* a spaced candidate with a treatment code has been extracted
C4_Witness ==
    /\ Len(lines) = 1
    /\ lines[1].code = CodeKG
    /\ lines[1].g1 > 0 /\ lines[1].g2 > 0 /\ lines[1].g3 > 0 /\ lines[1].g4 > 0
    /\ xpc = "returned"
    /\ Len(result) = 1

\* x is y without y's leading and trailing whitespace
IsStripOf(x, y) ==
    /\ x = <<>> \/ (~IsSpace(x[1]) /\ ~IsSpace(x[Len(x)]))
    /\ \E a \in 0..Len(y) :
          /\ a + Len(x) <= Len(y)
          /\ SubSeq(y, a + 1, a + Len(x)) = x
          /\ \A i \in (1..a) \cup ((a + Len(x) + 1)..Len(y)) : IsSpace(y[i])

\* C5: in every record, therapy_kind is the text between the time and the
\* opening parenthesis and therapist_name the text between the parentheses,
\* each without its leading and trailing whitespace.
C5_FieldsTrimmed ==
    \A i \in 1..Len(result) :
        LET m == matches[i]
            open == m.g4[1] - 1
            close == m.g4[2]
        IN /\ TimeAt(text, m.g2[1]) /\ m.g2[2] = m.g2[1] + 5
           /\ text[open] = "(" /\ text[close] = ")"
           /\ \A j \in m.g2[2]..(open - 1) : text[j] # "("
           /\ \A j \in (open + 1)..(close - 1) : text[j] # ")"
           /\ IsStripOf(result[i].therapy_kind, Slice(text, m.g2[2], open))
           /\ IsStripOf(result[i].therapist_name, Slice(text, open + 1, close))

\* a record whose name stood padded between the parentheses and whose code
\* was set off by whitespace
C5_Witness ==
    \E i \in 1..Len(result) :
        /\ result[i].therapist_name # Group(text, matches[i], matches[i].g4)
        /\ IsSpace(text[matches[i].g2[2]])
        /\ result[i].therapy_kind = CodeKG

(***************************************************************************)
(* Properties of the calendar-file generator.                              *)
(***************************************************************************)
\* the days of the months of year y before month m
RECURSIVE DaysBeforeMonth(_, _)
DaysBeforeMonth(y, m) ==
    IF m = 1 THEN 0 ELSE DaysBeforeMonth(y, m - 1) + DaysInMonth(y, m - 1)

\* the minutes from the start of year 1 to dt
MinutesOf(dt) ==
    LET p == dt.year - 1
        days == 365 * p + (p \div 4) - (p \div 100) + (p \div 400)
                + DaysBeforeMonth(dt.year, dt.month) + (dt.day - 1)
    IN (days * 24 + dt.hour) * 60 + dt.minute

IsDateTime(dt) ==
    /\ dt.month \in 1..12
    /\ dt.day \in 1..DaysInMonth(dt.year, dt.month)
    /\ dt.hour \in 0..23
    /\ dt.minute \in 0..59

\* s cut at its newlines
RECURSIVE SplitLines(_)
SplitLines(s) ==
    LET nl == {i \in 1..Len(s) : s[i] = "\n"}
    IN IF nl = {} THEN <<s>>
       ELSE <<SubSeq(s, 1, Min(nl) - 1)>> \o SplitLines(SubSeq(s, Min(nl) + 1, Len(s)))

\* C6: _generate_ics produces one event per appointment, in the order of the
\* list; each event starts at the appointment's date, ends
\* appointment_duration_minutes later, is titled with the mapped name of the
\* code or, unmapped, the code itself, described by the therapist's name,
\* located at the address lines joined by newlines, and CONFIRMED.
C6_EventPerAppointment ==
    ipc = "done" =>
        /\ Len(calendar.events) = Len(appointments)
        /\ \A i \in 1..Len(appointments) :
              LET e == calendar.events[i]
                  a == appointments[i]
                  mapping == config.therapy_kind_mapping
              IN /\ e.dtstart = a.date
                 /\ IsDateTime(e.dtend)
                 /\ MinutesOf(e.dtend) = MinutesOf(a.date) + config.appointment_duration_minutes
                 /\ \A k \in DOMAIN mapping : k = a.therapy_kind => e.summary = mapping[k]
                 /\ a.therapy_kind \notin DOMAIN mapping => e.summary = a.therapy_kind
                 /\ e.description = a.therapist_name
                 /\ SplitLines(e.location) = config.therapy_practice_address
                 /\ e.status = "CONFIRMED"

\* a finished calendar with a mapped and an unmapped code and an event that
\* ends in the next year
C6_Witness ==
    /\ ipc = "done"
    /\ \E i, j, k \in 1..Len(calendar.events) :
          /\ calendar.events[i].summary # appointments[i].therapy_kind
          /\ calendar.events[j].summary = appointments[j].therapy_kind
          /\ calendar.events[k].dtend.year > calendar.events[k].dtstart.year

\* C7: no two events of one generated calendar have the same uid, also when
\* appointments of the list have the same date and time.
C7_UidsDistinct ==
    \A i, j \in 1..Len(calendar.events) :
        i # j => calendar.events[i].uid # calendar.events[j].uid

\* a finished calendar made from a list that holds the same record twice
C7_Witness ==
    /\ ipc = "done"
    /\ \E i, j \in 1..Len(appointments) : i # j /\ appointments[i] = appointments[j]

(***************************************************************************)
(* Properties of the configuration store.                                  *)
(***************************************************************************)
\* cfg holds what the object o persists: each declared key's value
ReturnsPersisted(o, cfg) ==
    /\ "therapy_practice_address" \in DOMAIN o =>
           cfg.therapy_practice_address = o["therapy_practice_address"]
    /\ "therapy_kind_mapping" \in DOMAIN o =>
           cfg.therapy_kind_mapping = o["therapy_kind_mapping"]
    /\ "appointment_duration_minutes" \in DOMAIN o =>
           LET j == o["appointment_duration_minutes"]
           IN cfg.appointment_duration_minutes = (IF j.t = "int" THEN j.v ELSE Num(j.v))

\* C10: load_or_default on a path with no file writes the defaults there and
\* returns them; on a path with a file it returns the persisted values and
\* writes nothing; two consecutive loads return the same record and the
\* second leaves the file as it was.
C10_LoadIdempotent ==
    /\ \A k \in 1..Len(loads) :
          LET l == loads[k]
          IN /\ ~l.before.exists =>
                    /\ l.outcome.ok
                    /\ l.outcome.config = DefaultConfig
                    /\ l.after.exists
                    /\ l.after.contents.wellformed
                    /\ DOMAIN l.after.contents.obj =
                           {"therapy_practice_address", "therapy_kind_mapping",
                            "appointment_duration_minutes"}
                    /\ l.after.contents.obj["appointment_duration_minutes"].t = "int"
                    /\ ReturnsPersisted(l.after.contents.obj, DefaultConfig)
             /\ l.before.exists =>
                    /\ l.after = l.before
                    /\ l.outcome.ok => ReturnsPersisted(l.before.contents.obj, l.outcome.config)
    /\ \A k \in 1..(Len(loads) - 1) :
          /\ loads[k + 1].before = loads[k].after
          /\ loads[k].outcome.ok =>
                 /\ loads[k + 1].outcome.ok
                 /\ loads[k + 1].outcome.config = loads[k].outcome.config
                 /\ loads[k + 1].after = loads[k + 1].before

\* a first load that created the file, followed by a load that read it
C10_Witness ==
    /\ Len(loads) = 2
    /\ ~loads[1].before.exists
    /\ loads[2].before.exists
    /\ loads[2].outcome.ok

(***************************************************************************)
(* Properties of the uploader.                                             *)
(***************************************************************************)
\* the (title, start time) pairs of the remote events that a listing at the
\* start of the upload returns
ListedAtStart == {<<e.summary, e.dateTime>> : e \in {r \in remote : r.upcoming}}

\* the insert requests issued for the i-th appointment
RequestsFor(i) == {k \in 1..Len(requests) : requests[k].index = i}

\* the upload has ended and no call of the remote service or of the
\* credential flow has failed
EndedUnfailed ==
    /\ upc \in {"returned", "handled"}
    /\ \A k \in 1..Len(printed) :
          printed[k] \notin {"error: build", "error: list", "error: insert"}

\* C8: an upload that meets no failure issues no create request for an
\* appointment whose (display name, start time) pair is among the pairs of
\* the events listed at the start, and counts it as skipped; it issues
\* exactly one create request for every other appointment.
C8_SkipOrCreateOnce ==
    EndedUnfailed =>
        /\ \A i \in 1..Len(appointments) :
              IF <<TherapyDisplay(config, appointments[i].therapy_kind),
                   IsoFormat(appointments[i].date)>> \in ListedAtStart
              THEN RequestsFor(i) = {}
              ELSE Cardinality(RequestsFor(i)) = 1
        /\ skipped_count =
               Cardinality({i \in 1..Len(appointments) :
                   <<TherapyDisplay(config, appointments[i].therapy_kind),
                     IsoFormat(appointments[i].date)>> \in ListedAtStart})

\* C9: a failure at any step of the upload (credentials, listing, inserting)
\* is reported by a message and does not leave the upload as an exception.
C9_FailureContained == upc # "raised"

(***************************************************************************)
(* Properties of main.                                                     *)
(***************************************************************************)
\* the calendar file of the i-th document is in the output directory
Written(i) == \E f \in output : f.name = OutputFile(pdfs[i].stem)

\* C11: once main has loaded a valid configuration, the run eventually has
\* written the calendar file of every document of the input directory.
C11_EveryDocumentWritten ==
    (mpc = "loop" /\ doc = 1) ~> (\A i \in 1..Len(pdfs) : Written(i))

(***************************************************************************)
(* Properties of repeated uploads.                                         *)
(***************************************************************************)
\* the (title, start time) pair of a stored event
PairOf(e) == <<e.summary, e.start.dateTime>>

RECURSIVE RecordsLineByLine(_)
RecordsLineByLine(ls) ==
    IF ls = <<>> THEN <<>>
    ELSE OutcomeOf(RenderLine(Head(ls))).result \o RecordsLineByLine(Tail(ls))

\* every line of ls, extracted on its own, returns
EachLineReturns(ls) ==
    \A i \in 1..Len(ls) : OutcomeOf(RenderLine(ls[i])).pc = "returned"

\* C13: the records extracted from a text of several lines are the records
\* of its lines, each extracted on its own: a line that matches gives its
\* own record, a line that does not match gives none and changes no other.
C13_LinesIndependent ==
    (Finished /\ EachLineReturns(lines)) =>
        /\ xpc = "returned"
        /\ result = RecordsLineByLine(lines)

====
